---- MODULE Spec2Model ----
(***************************************************************************)
(* JitsiAuthConnection: the role-upgrade handshake controller.             *)
(*                                                                         *)
(* One controller instance is modelled.  JavaScript is single threaded, so *)
(* every handler (an API call, an event listener, a promise continuation)  *)
(* runs to completion and is one action.  The controller's own calls on    *)
(* its collaborators (the secondary XMPP connection, the room handle, the  *)
(* parent conference) and on the promise's resolve/reject functions are    *)
(* appended to `trace` in the order the code issues them.                  *)
(***************************************************************************)
EXTENDS Integers, Sequences, FiniteSets, TLC

VARIABLES
    canceled,           \* this.canceled
    _promise,           \* this._promise: 0 is null, otherwise a promise id
    promises,           \* the promises created so far, by id
    listeners,          \* listeners added to this.xmpp, in registration order
    room,               \* this.room: 0 is undefined, otherwise a room handle id
    auths,              \* moderator.authenticate() calls and their continuations
    conn,               \* lifecycle of the secondary connection
    pendingDisconnect,  \* a disconnect was requested and not yet acknowledged
    trace,              \* API calls and the controller's outgoing calls, in order
    returned            \* the promise id returned by each authenticateAndUpgradeRole call

vars == <<canceled, _promise, promises, listeners, room, auths, conn,
          pendingDisconnect, trace, returned>>

----------------------------------------------------------------------------
(* Bounds and input domains *)

MaxCalls == 2
MaxCancels == 2

Undefined == "undefined"
Ids == {"user@host"}
Passwords == {"pw"}
RoomPasswords == {Undefined, "roompw"}
Errors == {"e1", "e2"}
Messages == {"m1"}

CONNECTION_ESTABLISHED == "established"
CONNECTION_FAILED == "failed"
CONNECTION_DISCONNECTED == "disconnected"

\* The object literal {}
EmptyObject == [f \in {} |-> Undefined]

----------------------------------------------------------------------------
(* The controller and its collaborators as one record, so that handlers    *)
(* are functions from state to state and can be composed in code order.    *)

Cur ==
    [canceled |-> canceled, _promise |-> _promise, promises |-> promises,
     listeners |-> listeners, room |-> room, auths |-> auths, conn |-> conn,
     pendingDisconnect |-> pendingDisconnect, trace |-> trace,
     returned |-> returned]

Commit(m) ==
    /\ canceled' = m.canceled
    /\ _promise' = m._promise
    /\ promises' = m.promises
    /\ listeners' = m.listeners
    /\ room' = m.room
    /\ auths' = m.auths
    /\ conn' = m.conn
    /\ pendingDisconnect' = m.pendingDisconnect
    /\ trace' = m.trace
    /\ returned' = m.returned

Call(m, e) == [m EXCEPT !.trace = Append(@, e)]

----------------------------------------------------------------------------
(* Promise settlement: the resolve and reject functions of a promise only  *)
(* act on a pending promise.                                               *)

resolve(m, pid) ==
    LET c == Call(m, <<"resolve", pid>>)
    IN  IF m.promises[pid].state = "pending"
        THEN [c EXCEPT !.promises[pid] = [state |-> "resolved"]]
        ELSE c

reject(m, pid, reason) ==
    LET c == Call(m, <<"reject", pid, reason>>)
    IN  IF m.promises[pid].state = "pending"
        THEN [c EXCEPT !.promises[pid] = [state |-> "rejected", reason |-> reason]]
        ELSE c

----------------------------------------------------------------------------
(* Collaborators *)

xmppConnect(m, id, password) ==
    [Call(m, <<"connect", id, password>>)
        EXCEPT !.conn = IF @ = "idle" THEN "connecting" ELSE @]

xmppDisconnect(m) ==
    [Call(m, <<"disconnect">>)
        EXCEPT !.pendingDisconnect = (@ \/ m.conn # "disconnected")]

addListener(m, event, pid, onLoginSuccessful, roomPassword) ==
    [Call(m, <<"addListener", event>>)
        EXCEPT !.listeners = Append(@, [event |-> event, pid |-> pid,
                                        onLoginSuccessful |-> onLoginSuccessful,
                                        roomPassword |-> roomPassword])]

conferenceJoin(m, roomPassword) == Call(m, <<"join", roomPassword>>)

createRoom(m) == [Call(m, <<"createRoom">>) EXCEPT !.room = @ + 1]

moderatorAuthenticate(m, l) ==
    [Call(m, <<"authenticate">>)
        EXCEPT !.auths = Append(@, [pid |-> l.pid, roomPassword |-> l.roomPassword,
                                    state |-> "inflight"])]

----------------------------------------------------------------------------
(* The continuations of room.moderator.authenticate() *)

authenticateThen_DropsRoomPassword(m, a) ==
    IF m.canceled
    THEN m
    ELSE resolve(conferenceJoin(xmppDisconnect(m), Undefined), a.pid)

authenticateThen_NoCancelCheck(m, a) ==
    resolve(conferenceJoin(xmppDisconnect(m), a.roomPassword), a.pid)

authenticateThen_RejectsIfCanceled(m, a) ==
    IF m.canceled
    THEN reject(m, a.pid, EmptyObject)
    ELSE resolve(conferenceJoin(xmppDisconnect(m), a.roomPassword), a.pid)

authenticateThen_ResolvesFirst(m, a) ==
    IF m.canceled
    THEN m
    ELSE conferenceJoin(xmppDisconnect(resolve(m, a.pid)), a.roomPassword)

authenticateThen(m, a) ==
    IF m.canceled
    THEN m
    ELSE resolve(conferenceJoin(xmppDisconnect(m), a.roomPassword), a.pid)

authenticateCatch_SilentIfCanceled(m, a, error, message) ==
    IF m.canceled
    THEN m
    ELSE reject(xmppDisconnect(m), a.pid,
                [authenticationError |-> error, message |-> message])

authenticateCatch_NoDisconnect(m, a, error, message) ==
    reject(m, a.pid, [authenticationError |-> error, message |-> message])

authenticateCatch(m, a, error, message) ==
    reject(xmppDisconnect(m), a.pid,
           [authenticationError |-> error, message |-> message])

----------------------------------------------------------------------------
(* The three listeners *)

connectionEstablished_NoCancelCheck(m, l) ==
    LET m1 == IF l.onLoginSuccessful
              THEN Call(m, <<"onLoginSuccessful">>)
              ELSE m
    IN  moderatorAuthenticate(createRoom(m1), l)

connectionEstablished(m, l) ==
    IF m.canceled
    THEN m
    ELSE LET m1 == IF l.onLoginSuccessful
                   THEN Call(m, <<"onLoginSuccessful">>)
                   ELSE m
         IN  moderatorAuthenticate(createRoom(m1), l)

connectionFailed_CanceledWins(m, l, connectionError, message) ==
    IF m.canceled
    THEN reject(m, l.pid, EmptyObject)
    ELSE reject(m, l.pid, [connectionError |-> connectionError, message |-> message])

connectionFailed(m, l, connectionError, message) ==
    reject(m, l.pid, [connectionError |-> connectionError, message |-> message])

connectionDisconnected_NoCancelCheck(m, l) ==
    reject(m, l.pid, EmptyObject)

connectionDisconnected_NeverRejects(m, l) == m

connectionDisconnected(m, l) ==
    IF m.canceled
    THEN reject(m, l.pid, EmptyObject)
    ELSE m

\* The event emitter calls the listeners of an event in registration order.
RECURSIVE emit(_, _, _, _)
emit(m, event, args, i) ==
    IF i > Len(m.listeners)
    THEN m
    ELSE LET l == m.listeners[i]
             m1 == IF l.event # event THEN m
                   ELSE IF event = CONNECTION_ESTABLISHED
                        THEN connectionEstablished(m, l)
                   ELSE IF event = CONNECTION_FAILED
                        THEN connectionFailed(m, l, args[1], args[2])
                   ELSE connectionDisconnected(m, l)
         IN  emit(m1, event, args, i + 1)

----------------------------------------------------------------------------
(* The API *)

\* The promise executor: wires the listeners, then connects unless canceled.
executor_ConnectsEvenIfCanceled(m, pid, id, password, onLoginSuccessful, roomPassword) ==
    LET m1 == addListener(m, CONNECTION_ESTABLISHED, pid,
                          onLoginSuccessful, roomPassword)
        m2 == addListener(m1, CONNECTION_FAILED, pid,
                          onLoginSuccessful, roomPassword)
        m3 == addListener(m2, CONNECTION_DISCONNECTED, pid,
                          onLoginSuccessful, roomPassword)
    IN  xmppConnect(m3, id, password)

executor_ConnectsBeforeListeners(m, pid, id, password, onLoginSuccessful, roomPassword) ==
    LET m0 == IF m.canceled
              THEN reject(m, pid, EmptyObject)
              ELSE xmppConnect(m, id, password)
        m1 == addListener(m0, CONNECTION_ESTABLISHED, pid,
                          onLoginSuccessful, roomPassword)
        m2 == addListener(m1, CONNECTION_FAILED, pid,
                          onLoginSuccessful, roomPassword)
    IN  addListener(m2, CONNECTION_DISCONNECTED, pid,
                    onLoginSuccessful, roomPassword)

executor(m, pid, id, password, onLoginSuccessful, roomPassword) ==
    LET m1 == addListener(m, CONNECTION_ESTABLISHED, pid,
                          onLoginSuccessful, roomPassword)
        m2 == addListener(m1, CONNECTION_FAILED, pid,
                          onLoginSuccessful, roomPassword)
        m3 == addListener(m2, CONNECTION_DISCONNECTED, pid,
                          onLoginSuccessful, roomPassword)
    IN  IF m3.canceled
        THEN reject(m3, pid, EmptyObject)
        ELSE xmppConnect(m3, id, password)

newPromise(m, id, password, onLoginSuccessful, roomPassword) ==
    LET pid == Len(m.promises) + 1
        m0 == [m EXCEPT !.promises = Append(@, [state |-> "pending"])]
        m1 == executor(m0, pid, id, password, onLoginSuccessful, roomPassword)
    IN  [m1 EXCEPT !._promise = pid, !.returned = Append(@, pid)]

authenticateAndUpgradeRole_NoMemo(m, id, password, onLoginSuccessful, roomPassword) ==
    newPromise(m, id, password, onLoginSuccessful, roomPassword)

authenticateAndUpgradeRole_MemoOnlyWhilePending(m, id, password, onLoginSuccessful, roomPassword) ==
    IF m._promise # 0 /\ m.promises[m._promise].state = "pending"
    THEN [m EXCEPT !.returned = Append(@, m._promise)]
    ELSE newPromise(m, id, password, onLoginSuccessful, roomPassword)

authenticateAndUpgradeRole(m, id, password, onLoginSuccessful, roomPassword) ==
    IF m._promise # 0
    THEN [m EXCEPT !.returned = Append(@, m._promise)]
    ELSE newPromise(m, id, password, onLoginSuccessful, roomPassword)

cancel_ClearsPromise(m) ==
    xmppDisconnect([m EXCEPT !.canceled = TRUE, !._promise = 0])

cancel_RejectsPending(m) ==
    LET m1 == [m EXCEPT !.canceled = TRUE]
        m2 == IF m1._promise # 0 THEN reject(m1, m1._promise, EmptyObject) ELSE m1
    IN  xmppDisconnect(m2)

cancel(m) == xmppDisconnect([m EXCEPT !.canceled = TRUE])

----------------------------------------------------------------------------
(* Trace helpers *)

Indices(op) == {i \in 1..Len(trace) : trace[i][1] = op}
Count(op) == Cardinality(Indices(op))
Min(S) == CHOOSE x \in S : \A y \in S : x <= y

----------------------------------------------------------------------------
(* Specification *)

Init ==
    /\ canceled = FALSE
    /\ _promise = 0
    /\ promises = <<>>
    /\ listeners = <<>>
    /\ room = 0
    /\ auths = <<>>
    /\ conn = "idle"
    /\ pendingDisconnect = FALSE
    /\ trace = <<>>
    /\ returned = <<>>

AuthenticateAndUpgradeRole(id, password, onLoginSuccessful, roomPassword) ==
    /\ Len(returned) < MaxCalls
    /\ Commit(authenticateAndUpgradeRole(
                Call(Cur, <<"authenticateAndUpgradeRole", roomPassword>>),
                id, password, onLoginSuccessful, roomPassword))

Cancel ==
    /\ Count("cancel") < MaxCancels
    /\ Commit(cancel(Call(Cur, <<"cancel">>)))

(* The secondary connection's event stream.  A connect is followed by at    *)
(* most one established event; a failed event reports a connection that    *)
(* could not be established or was lost; a disconnected event acknowledges *)
(* a requested disconnect and ends the stream.  The events, the completion *)
(* of moderator authentication and the API calls interleave freely.        *)
CanEstablish == conn = "connecting"
CanFail == conn \in {"connecting", "established"}
CanDisconnect == pendingDisconnect /\ conn \notin {"idle", "disconnected"}

ConnectionEstablished ==
    /\ CanEstablish
    /\ Commit(emit([Cur EXCEPT !.conn = "established"],
                   CONNECTION_ESTABLISHED, <<>>, 1))

ConnectionFailed(connectionError, message) ==
    /\ CanFail
    /\ Commit(emit([Cur EXCEPT !.conn = "failed"],
                   CONNECTION_FAILED, <<connectionError, message>>, 1))

ConnectionDisconnected ==
    /\ CanDisconnect
    /\ Commit(emit([Cur EXCEPT !.conn = "disconnected",
                               !.pendingDisconnect = FALSE],
                   CONNECTION_DISCONNECTED, <<>>, 1))

AuthenticateResolves(i) ==
    /\ auths[i].state = "inflight"
    /\ Commit(authenticateThen([Cur EXCEPT !.auths[i].state = "resolved"], auths[i]))

AuthenticateRejects(i, error, message) ==
    /\ auths[i].state = "inflight"
    /\ Commit(authenticateCatch([Cur EXCEPT !.auths[i].state = "rejected"],
                                auths[i], error, message))

Next ==
    \/ \E id \in Ids, password \in Passwords, onLoginSuccessful \in BOOLEAN,
          roomPassword \in RoomPasswords :
            AuthenticateAndUpgradeRole(id, password, onLoginSuccessful, roomPassword)
    \/ Cancel
    \/ ConnectionEstablished
    \/ \E connectionError \in Errors, message \in Messages :
            ConnectionFailed(connectionError, message)
    \/ ConnectionDisconnected
    \/ \E i \in 1..Len(auths) : AuthenticateResolves(i)
    \/ \E i \in 1..Len(auths), error \in Errors, message \in Messages :
            AuthenticateRejects(i, error, message)

Spec == Init /\ [][Next]_vars

(* Delivery assumptions on the collaborators: a connection that is         *)
(* connecting eventually reports established or failed, an authentication  *)
(* in flight eventually resolves or rejects, a requested disconnect is     *)
(* eventually acknowledged by a disconnected event.  Nothing is assumed of *)
(* the callers of the API.                                                 *)
ConnectCompletes ==
    /\ conn = "connecting"
    /\ \/ ConnectionEstablished
       \/ \E connectionError \in Errors, message \in Messages :
              ConnectionFailed(connectionError, message)

AuthenticateCompletes ==
    \E i \in 1..Len(auths) :
        \/ AuthenticateResolves(i)
        \/ \E error \in Errors, message \in Messages :
              AuthenticateRejects(i, error, message)

Fairness ==
    /\ WF_vars(ConnectCompletes)
    /\ WF_vars(AuthenticateCompletes)
    /\ WF_vars(ConnectionDisconnected)

FairSpec == Init /\ [][Next]_vars /\ Fairness

----------------------------------------------------------------------------
(* Vocabulary of the properties *)

\* The operation the controller holds: absent until the first call.
Outcome == IF _promise = 0 THEN [state |-> "absent"] ELSE promises[_promise]

Settled == Outcome.state \in {"resolved", "rejected"}

Resolved == [state |-> "resolved"]

RejectedWith(reason) == [state |-> "rejected", reason |-> reason]

RejectedByField(field) ==
    /\ Outcome.state = "rejected"
    /\ field \in DOMAIN Outcome.reason

\* cancel() was called before the first authenticateAndUpgradeRole call.
CanceledBeforeFirstCall ==
    /\ Indices("cancel") # {}
    /\ \/ Indices("authenticateAndUpgradeRole") = {}
       \/ Min(Indices("cancel")) < Min(Indices("authenticateAndUpgradeRole"))

\* The roomPassword option of the first authenticateAndUpgradeRole call.
FirstRoomPassword == trace[Min(Indices("authenticateAndUpgradeRole"))][2]

AuthenticationResolved == \E i \in 1..Len(auths) : auths[i].state = "resolved"

\* Some call of the trace happened after some settlement attempt / cancel.
Before(opA, opB) == \E i \in Indices(opA), j \in Indices(opB) : i < j

----------------------------------------------------------------------------
(* C1: single-flight.  On a controller that was not canceled before the    *)
(* first authenticateAndUpgradeRole call, however many calls were made and *)
(* whatever happened in between, connect has been invoked exactly once,    *)
(* only one operation was ever created, and every call returned it.        *)
C1_SingleFlight ==
    (Len(returned) >= 1 /\ ~CanceledBeforeFirstCall) =>
        /\ Count("connect") = 1
        /\ Len(promises) = 1
        /\ _promise = 1
        /\ \A i \in 1..Len(returned) : returned[i] = 1

\* A second call made after the operation had already settled.
C1_Witness ==
    /\ Len(returned) = 2
    /\ ~CanceledBeforeFirstCall
    /\ Settled
    /\ \E j \in Indices("authenticateAndUpgradeRole") :
          \E i \in Indices("reject") \cup Indices("resolve") : i < j

(* C2: the operation settles at most once.  Once the controller's          *)
(* operation is resolved or rejected, no step changes its outcome or its   *)
(* payload, and a settled outcome is exactly one of: resolved, rejected    *)
(* with {connectionError, message}, rejected with {authenticationError,    *)
(* message}, rejected with {}.                                             *)
OutcomeShape ==
    /\ Outcome.state \in {"absent", "pending", "resolved", "rejected"}
    /\ Outcome.state = "rejected" =>
          DOMAIN Outcome.reason \in {{}, {"connectionError", "message"},
                                     {"authenticationError", "message"}}

C2_SettlesAtMostOnce ==
    [][/\ Settled => Outcome' = Outcome
       /\ \A pid \in 1..Len(promises) :
             promises[pid].state # "pending" => promises'[pid] = promises[pid]
       /\ OutcomeShape']_vars

\* A settled operation on which a second settlement was attempted.
C2_Witness ==
    /\ Settled
    /\ Count("reject") + Count("resolve") >= 2

(* C3: if cancel() was called before the first authenticateAndUpgradeRole  *)
(* call, then from the state right after that call on, the operation is    *)
(* rejected with {} and connect has never been invoked, also after later   *)
(* calls.                                                                  *)
C3_CanceledBeforeFirstCall ==
    (CanceledBeforeFirstCall /\ Len(returned) >= 1) =>
        /\ Outcome = RejectedWith(EmptyObject)
        /\ Count("connect") = 0

C3_Witness ==
    /\ CanceledBeforeFirstCall
    /\ Len(returned) = 2
    /\ Outcome = RejectedWith(EmptyObject)

(* C4: after cancel() on an operation that has not settled, the settlement *)
(* that follows is rejection with {}.                                      *)
C4_CancelThenEmptyRejection ==
    [][(canceled /\ ~Settled /\ Settled') => Outcome' = RejectedWith(EmptyObject)]_vars

FailedBeforeAuthenticationResolved ==
    \E i \in Indices("reject"), j \in Indices("resolve") :
        i < j /\ "connectionError" \in DOMAIN trace[i][3]

C8_JoinIffAuthenticatedAndNotCanceled ==
    [][/\ (Count("join")' # Count("join")) <=>
             (~canceled /\ \E i \in 1..Len(auths) : AuthenticateResolves(i))
       /\ canceled => Count("join")' = Count("join")]_vars

\* Authentication resolved after a cancel: no join.
C8_Witness ==
    /\ AuthenticationResolved
    /\ canceled
    /\ Count("join") = 0

(* C9: {} is the signal of cancellation only: an operation rejected with   *)
(* {} implies canceled, and every reject({}) call of the controller was    *)
(* preceded by a cancel() call.                                            *)
C9_EmptyRejectionImpliesCanceled ==
    /\ \A pid \in 1..Len(promises) :
          promises[pid] = RejectedWith(EmptyObject) => canceled
    /\ \A j \in Indices("reject") :
          trace[j][3] = EmptyObject => \E i \in Indices("cancel") : i < j

\* Rejected with {} by the disconnected listener.
C9_Witness ==
    /\ Outcome = RejectedWith(EmptyObject)
    /\ conn = "disconnected"

(* C10: in every state where the operation has settled, disconnect has     *)
(* been invoked on the secondary connection at least once.                 *)
C10_DisconnectedOnEveryTerminalPath ==
    Settled => Count("disconnect") >= 1

(* C10 (amended): in every state where the operation has settled other     *)
(* than by a rejection with {connectionError, message}, disconnect has     *)
(* been invoked on the secondary connection at least once.                 *)
C10_DisconnectedUnlessConnectionFailed ==
    (Settled /\ ~RejectedByField("connectionError")) => Count("disconnect") >= 1

\* Authentication rejected, no cancel: the only disconnect is the handler's.
C10_Witness ==
    /\ RejectedByField("authenticationError")
    /\ ~canceled
    /\ Count("disconnect") = 1

(* C11: cancel() is idempotent: a cancel() call made when canceled is       *)
(* already true, or when the operation has already settled, leaves the     *)
(* canceled flag, the pending-operation slot and the operation's outcome   *)
(* as they were before the call.                                           *)
C11_CancelHasNoAdditionalEffect ==
    [][(Cancel /\ (canceled \/ Settled)) =>
           /\ canceled' = canceled
           /\ _promise' = _promise
           /\ Outcome' = Outcome]_vars

(* C11 (amended): a cancel() call made when canceled is already true       *)
(* leaves the canceled flag, the slot and the outcome unchanged; a         *)
(* cancel() call made after the operation has settled leaves the slot and  *)
(* the outcome unchanged but sets canceled to true when it is the first    *)
(* cancel; every cancel() call invokes disconnect again and touches        *)
(* nothing else of the controller.                                         *)
C11_RepeatedOrLateCancel ==
    [][(Cancel /\ (canceled \/ Settled)) =>
           /\ canceled' = TRUE
           /\ canceled => canceled' = canceled
           /\ _promise' = _promise
           /\ promises' = promises
           /\ Outcome' = Outcome
           /\ <<listeners, room, auths, returned>>' = <<listeners, room, auths, returned>>
           /\ trace' = trace \o <<<<"cancel">>, <<"disconnect">>>>]_vars

\* Two cancel() calls, the second made after the operation had settled.
C11_Witness ==
    /\ Count("cancel") = 2
    /\ Settled
    /\ \E i \in Indices("reject") \cup Indices("resolve"), j \in Indices("cancel") :
          i < j

(* C12: once the connection is established, cancel() was called while the  *)
(* authentication was in flight and the authentication has then resolved,  *)
(* the operation stays pending: no later step settles it.                  *)
C12_RaceLeavesOperationPending ==
    [][(canceled /\ AuthenticationResolved /\ Outcome.state = "pending") =>
           Outcome'.state = "pending"]_vars

(* C12 (amended): in that race the resolution of the authentication itself *)
(* changes nothing (no disconnect, no join, no settlement) and leaves the  *)
(* operation as it was; a pending operation is settled afterwards by the   *)
(* disconnected event that answers cancel()'s disconnect, as a rejection   *)
(* with {}, or by a failed event, as a rejection with {connectionError,    *)
(* message}, and by nothing else.                                          *)
C12_RaceSettledByDisconnectedOrFailed ==
    [][/\ (canceled /\ \E i \in 1..Len(auths) : AuthenticateResolves(i)) =>
             /\ trace' = trace
             /\ Outcome' = Outcome
       /\ (canceled /\ AuthenticationResolved /\ Outcome.state = "pending" /\ Settled') =>
             \/ ConnectionDisconnected /\ Outcome' = RejectedWith(EmptyObject)
             \/ \E E \in Errors, M \in Messages :
                   /\ ConnectionFailed(E, M)
                   /\ Outcome' = RejectedWith([connectionError |-> E, message |-> M])]_vars

\* The race, settled by the disconnected event.
C12_Witness ==
    /\ canceled
    /\ AuthenticationResolved
    /\ Count("join") = 0
    /\ Outcome = RejectedWith(EmptyObject)
    /\ conn = "disconnected"

(* C13: once canceled is true no success path proceeds: no step taken      *)
(* while canceled is true resolves the operation or calls resolve or join. *)
C13_NoSuccessAfterCancel ==
    [][canceled =>
           /\ Outcome.state # "resolved" => Outcome'.state # "resolved"
           /\ Count("resolve")' = Count("resolve")
           /\ Count("join")' = Count("join")]_vars

\* Authentication resolved under a cancel and the operation is not resolved.
C13_Witness ==
    /\ canceled
    /\ AuthenticationResolved
    /\ Outcome.state = "pending"

(* C14: on the success path the continuation calls, in this order,         *)
(* disconnect on the secondary connection, join on the parent session and  *)
(* resolve; whenever the operation is resolved, a disconnect and a join    *)
(* precede the resolve call.                                               *)
C14_SuccessPathOrder ==
    [][/\ \A i \in 1..Len(auths) :
             (~canceled /\ AuthenticateResolves(i)) =>
                 trace' = trace \o <<<<"disconnect">>,
                                     <<"join", auths[i].roomPassword>>,
                                     <<"resolve", auths[i].pid>>>>
       /\ (Outcome = Resolved)' =>
             \E d \in Indices("disconnect")', j \in Indices("join")',
                r \in Indices("resolve")' : d < j /\ j < r]_vars

\* Resolved with a room password, the continuation's disconnect the only one.
C14_Witness ==
    /\ Outcome = Resolved
    /\ Count("disconnect") = 1
    /\ FirstRoomPassword = "roompw"

(* C15: the established, failed and disconnected listeners are registered  *)
(* before connect is invoked, so that the connection never leaves its idle *)
(* state with a listener missing; they are registered by every first call, *)
(* also by one that rejects at once because of a prior cancel().           *)
ListenerEvents == {listeners[i].event : i \in 1..Len(listeners)}

AllEvents == {CONNECTION_ESTABLISHED, CONNECTION_FAILED, CONNECTION_DISCONNECTED}

C15_ListenersBeforeConnect ==
    /\ \A c \in Indices("connect") :
          \A e \in AllEvents :
              \E a \in Indices("addListener") : a < c /\ trace[a][2] = e
    /\ conn # "idle" => ListenerEvents = AllEvents
    /\ Len(returned) >= 1 => ListenerEvents = AllEvents

\* An event that followed connect was delivered to its listener.
C15_Witness ==
    /\ Count("connect") = 1
    /\ conn = "established"
    /\ Len(auths) = 1

(* C16: cancel() does not itself settle the operation: a cancel() step     *)
(* leaves the operation's settlement state as it was, sets canceled and    *)
(* calls disconnect and nothing else; a pending operation becomes rejected *)
(* with {} only in a step that handles a disconnected event.               *)
C16_CancelDoesNotSettle ==
    [][/\ Cancel =>
             /\ Outcome' = Outcome
             /\ promises' = promises
             /\ canceled' = TRUE
             /\ trace' = trace \o <<<<"cancel">>, <<"disconnect">>>>
       /\ (Outcome.state = "pending" /\ Outcome' = RejectedWith(EmptyObject)) =>
             ConnectionDisconnected]_vars

\* Canceled, the disconnected event not yet handled: still pending.
C16_Witness ==
    /\ canceled
    /\ Outcome.state = "pending"
    /\ pendingDisconnect

(* C17: an established event handled while canceled is true does nothing:  *)
(* no onLoginSuccessful, no room handle, no authentication, no call at     *)
(* all, and the operation's settlement state is unchanged.                 *)
C17_EstablishedWhileCanceled ==
    [][(canceled /\ ConnectionEstablished) =>
           /\ trace' = trace
           /\ room' = room
           /\ auths' = auths
           /\ promises' = promises
           /\ Outcome' = Outcome]_vars

\* Established was handled under a cancel: no room handle exists.
C17_Witness ==
    /\ canceled
    /\ conn = "established"
    /\ room = 0
    /\ \E i \in 1..Len(listeners) : listeners[i].onLoginSuccessful

(* C18: join and resolution coincide: the parent session's join has been   *)
(* invoked if and only if the operation is resolved.                       *)
C18_JoinIffResolved ==
    (Count("join") >= 1) <=> (Outcome = Resolved)

(* C19: under the delivery assumptions, every operation created by         *)
(* authenticateAndUpgradeRole eventually settles, whenever cancel() is     *)
(* called.                                                                 *)
C19_EventuallySettles ==
    (_promise # 0) ~> Settled

\* Canceled while the authentication was in flight, settled all the same.
C19_Witness ==
    /\ Settled
    /\ canceled
    /\ Len(auths) = 1
    /\ auths[1].state = "inflight"

====
